---------------------------- MODULE Spec2Model ----------------------------
(***************************************************************************)
(* Model of the redstorm recon tools: the amass driver (recon/amass.go),   *)
(* the parallel subdomain enumeration with its liveness filter             *)
(* (recon/subdomain.go) and the WHOIS lookup with its fallback chain       *)
(* (recon/whois.go).                                                       *)
(*                                                                         *)
(* Go strings are sequences of one-character strings; the strings package  *)
(* functions the code calls are operators over them, computed as the Go    *)
(* library computes them.                                                  *)
(***************************************************************************)
EXTENDS Integers, Sequences, FiniteSets, TLC

(* ------------------------------------------------------------------ *)
(* strings                                                             *)
(* ------------------------------------------------------------------ *)

\* unicode.IsSpace restricted to the ASCII characters the model uses
IsSpace(c) == c \in {" ", "\t", "\n", "\r"}

Range(s) == {s[i] : i \in 1..Len(s)}

RECURSIVE TrimLeftSet(_, _)
TrimLeftSet(s, cut) ==
    IF s # <<>> /\ Head(s) \in cut THEN TrimLeftSet(Tail(s), cut) ELSE s

RECURSIVE TrimRightSet(_, _)
TrimRightSet(s, cut) ==
    IF s # <<>> /\ s[Len(s)] \in cut
    THEN TrimRightSet(SubSeq(s, 1, Len(s) - 1), cut)
    ELSE s

\* strings.Trim(s, cutset)
Trim(s, cut) == TrimRightSet(TrimLeftSet(s, cut), cut)

\* strings.TrimSpace(s)
TrimSpace(s) == Trim(s, {" ", "\t", "\n", "\r"})

\* strings.HasPrefix / strings.HasSuffix
HasPrefix(s, p) == Len(p) <= Len(s) /\ SubSeq(s, 1, Len(p)) = p

HasSuffix(s, p) ==
    Len(p) <= Len(s) /\ SubSeq(s, Len(s) - Len(p) + 1, Len(s)) = p

\* strings.TrimPrefix / strings.TrimSuffix
TrimPrefix(s, p) == IF HasPrefix(s, p) THEN SubSeq(s, Len(p) + 1, Len(s)) ELSE s

TrimSuffix(s, p) == IF HasSuffix(s, p) THEN SubSeq(s, 1, Len(s) - Len(p)) ELSE s

\* strings.Contains(s, sub)
Contains(s, sub) ==
    \E i \in 0..(Len(s) - Len(sub)) : SubSeq(s, i + 1, i + Len(sub)) = sub

\* strings.ContainsAny(s, chars)
ContainsAny(s, chars) == \E i \in 1..Len(s) : s[i] \in chars

\* strings.Split(s, sep) for a one-character separator: always at least one
\* element, the empty string included
RECURSIVE SplitAcc(_, _, _)
SplitAcc(s, sep, cur) ==
    IF s = <<>> THEN <<cur>>
    ELSE IF Head(s) = sep THEN <<cur>> \o SplitAcc(Tail(s), sep, <<>>)
    ELSE SplitAcc(Tail(s), sep, Append(cur, Head(s)))

Split(s, sep) == SplitAcc(s, sep, <<>>)

\* strings.Join(elems, sep) for a one-character separator
RECURSIVE Join(_, _)
Join(elems, sep) ==
    IF elems = <<>> THEN <<>>
    ELSE IF Len(elems) = 1 THEN elems[1]
    ELSE elems[1] \o <<sep>> \o Join(Tail(elems), sep)

\* strings.Fields(s): the maximal runs of non-space characters
RECURSIVE FieldsAcc(_, _)
FieldsAcc(s, cur) ==
    IF s = <<>> THEN (IF cur = <<>> THEN <<>> ELSE <<cur>>)
    ELSE IF IsSpace(Head(s))
         THEN (IF cur = <<>> THEN <<>> ELSE <<cur>>) \o FieldsAcc(Tail(s), <<>>)
         ELSE FieldsAcc(Tail(s), Append(cur, Head(s)))

Fields(s) == FieldsAcc(s, <<>>)

\* bufio.Scanner with the default ScanLines: lines end at "\n", one trailing
\* "\r" is dropped, and no empty last line is produced
DropCR(l) == IF l # <<>> /\ l[Len(l)] = "\r" THEN SubSeq(l, 1, Len(l) - 1) ELSE l

ScanLines(s) ==
    LET parts == Split(s, "\n")
        n     == Len(parts)
        kept  == IF parts[n] = <<>> THEN SubSeq(parts, 1, n - 1) ELSE parts
    IN  [i \in 1..Len(kept) |-> DropCR(kept[i])]

SeqToSet(q) == {q[i] : i \in 1..Len(q)}


(* ------------------------------------------------------------------ *)
(* inputs and environment                                              *)
(* ------------------------------------------------------------------ *)

\* how many lines one run of amass may print
MaxLines == 2

\* how many lines one run of theHarvester, recon-ng or crt.sh may print
MaxToolLines == 1

\* how many lines one run of httpx may print
MaxHttpxLines == 1

\* how many candidates the liveness filter is handed when called directly
MaxHosts == 2

\* how many times the merge is applied to one shared result
MaxMerges == 3

\* targets the caller may pass with --domain: a well-formed one and ones
\* that isValidDomain rejects
dEC == <<"e", ".", "c">>

dHyphen == <<"-", "e", ".", "c">>

dSpace == <<"e", " ", "c">>

Domains == {dEC, dHyphen, dSpace}

\* "The enumeration has finished", amass's closing line
Finished == <<"T", "h", "e", " ", "e", "n", "u", "m", "e", "r", "a", "t", "i", "o", "n", " ", "h", "a", "s", " ", "f", "i", "n", "i", "s", "h", "e", "d">>

\* lines a run of amass may print (stdout and stderr combined)
AmassLines ==
    { <<"a", ".", "e", ".", "c">>,
      <<" ", "a", ".", "e", ".", "c">>,
      <<"w", ".", "e", ".", "c">>,
      <<"[", "b", ".", "e", ".", "c", "]", " ", "x">>,
      <<"A", ".", "e", ".", "c">>,
      <<"e", ".", "c">>,
      Finished,
      <<>> }

\* all sequences over S of length at most n
SeqsUpTo(S, n) == UNION {[1..k -> S] : k \in 0..n}

\* what amass may print: up to MaxLines lines, newline-separated and
\* newline-terminated
AmassOutputs ==
    {Join(ls, "\n") \o (IF ls = <<>> THEN <<>> ELSE <<"\n">>) :
        ls \in SeqsUpTo(AmassLines, MaxLines)}

(* ------------------------------------------------------------------ *)
(* recon/amass.go                                                      *)
(* ------------------------------------------------------------------ *)

\* --timeout default of the amass command
AmassTimeout == 300

\* the static prefixes of fallbackIndicators
indicators ==
    << <<"w", "w", "w">>,
       <<"m", "a", "i", "l">>,
       <<"a", "p", "i">>,
       <<"a", "d", "m", "i", "n">>,
       <<"p", "o", "r", "t", "a", "l">>,
       <<"s", "e", "c", "u", "r", "e">>,
       <<"c", "d", "n">>,
       <<"s", "t", "a", "t", "i", "c">>,
       <<"a", "p", "p">>,
       <<"d", "e", "v">>,
       <<"s", "t", "a", "g", "i", "n", "g">>,
       <<"t", "e", "s", "t">> >>

\* SubdomainInfo{Name, IPs: []string{}, Sources: []string{source}}
SubdomainInfo(name, source) == [Name |-> name, IPs |-> <<>>, Sources |-> <<source>>]

\* result.Sources[source]++ on a Go map: a missing key counts from zero
IncSource(m, source) ==
    IF source \in DOMAIN m
    THEN [m EXCEPT ![source] = @ + 1]
    ELSE [k \in DOMAIN m \cup {source} |-> IF k = source THEN 1 ELSE m[k]]

\* the append / seen[..] = true / Sources[..]++ block shared by the parser
\* and the indicator fallback; st is [result, seen]
AddSubdomain(st, name, source) ==
    [result |-> [st.result EXCEPT
                    !.Subdomains = Append(@, SubdomainInfo(name, source)),
                    !.Sources = IncSource(@, source)],
     seen   |-> st.seen \cup {name}]

\* the token loop of parseAmassOut (amass.go:188-199)
RECURSIVE parseTokens(_, _, _, _)
parseTokens(toks, domain, source, st) ==
    IF toks = <<>> THEN st
    ELSE LET tok == Trim(Head(toks), {"[", "]", "(", ")", "{", "}", "<", ">"})
             st2 == IF /\ HasSuffix(tok, <<".">> \o domain)
                       /\ tok # domain
                       /\ tok \notin st.seen
                    THEN AddSubdomain(st, tok, source)
                    ELSE st
         IN  parseTokens(Tail(toks), domain, source, st2)

\* parseLine without the seen test of the whole-line branch
parseLineNoSeen(raw, domain, source, st) ==
    LET line == TrimSpace(raw) IN
    IF line = <<>> \/ Contains(line, Finished) THEN st
    ELSE LET counted == [st EXCEPT !.result.Debug.ParsedLines = @ + 1] IN
         IF HasSuffix(line, <<".">> \o domain) /\ line # domain
         THEN AddSubdomain(counted, line, source)
         ELSE parseTokens(Fields(line), domain, source, counted)

\* one iteration of the scanner loop of parseAmassOut (amass.go:170-200)
parseLine(raw, domain, source, st) ==
    LET line == TrimSpace(raw) IN
    IF line = <<>> \/ Contains(line, Finished) THEN st
    ELSE LET counted == [st EXCEPT !.result.Debug.ParsedLines = @ + 1] IN
         IF HasSuffix(line, <<".">> \o domain) /\ line # domain
         THEN IF line \notin counted.seen
              THEN AddSubdomain(counted, line, source)
              ELSE counted
         ELSE parseTokens(Fields(line), domain, source, counted)

RECURSIVE parseLines(_, _, _, _)
parseLines(ls, domain, source, st) ==
    IF ls = <<>> THEN st
    ELSE parseLines(Tail(ls), domain, source, parseLine(Head(ls), domain, source, st))

\* parseAmassOut(output, domain, source, result, seen, debug): the new
\* result and the shared seen set
parseAmassOut(output, domain, source, result, seenSet, dbg) ==
    parseLines(ScanLines(output), domain, source, [result |-> result, seen |-> seenSet])

\* the loop of fallbackIndicators over indicators[i..]
RECURSIVE fallbackFrom(_, _, _)
fallbackFrom(i, domain, st) ==
    IF i > Len(indicators) THEN st
    ELSE LET sub == indicators[i] \o <<".">> \o domain
         IN  fallbackFrom(i + 1, domain,
                 IF sub \notin st.seen
                 THEN AddSubdomain(st, sub, "indicator-fallback")
                 ELSE st)

\* fallbackIndicators(domain, result, seen, debug)
fallbackIndicators(domain, result, seenSet, dbg) ==
    fallbackFrom(1, domain, [result |-> result, seen |-> seenSet])

\* the argument vector runAmassOnce builds (amass.go:116-125); the wordlist
\* flag is left at its default, the empty string
amassArgs(domain, passive, timeout) ==
    <<"enum", "-d", domain>>
    \o (IF passive THEN <<"-passive">> ELSE <<"-active", "-brute">>)
    \o <<"-timeout", timeout>>

\* the AmassResult literal performDebugAmass starts from (amass.go:80-94);
\* Timestamp is the wall clock and is left out
NewAmassResult(domain) ==
    [Domain     |-> domain,
     Subdomains |-> <<>>,
     Sources    |-> <<>>,
     Count      |-> 0,
     Command    |-> <<>>,
     Mode       |-> "passive",
     Status     |-> "running",
     Debug      |-> [RawOutput |-> <<>>, ParseErrors |-> <<>>,
                     TotalLines |-> 0, ParsedLines |-> 0]]


(* ------------------------------------------------------------------ *)
(* the shell pipelines of recon/subdomain.go                           *)
(* ------------------------------------------------------------------ *)

\* the characters in byte order, for sort(1) in the C locale (the double
\* quote, the backslash and the backquote occur in no modelled line and are left out)
AsciiOrder ==
    << "\t", "\n", "\r", " ", "!", "#", "$", "%", "&", "'", "(", ")", "*",
       "+", ",", "-", ".", "/", "0", "1", "2", "3", "4", "5", "6", "7", "8",
       "9", ":", ";", "<", "=", ">", "?", "@", "A", "B", "C", "D", "E", "F",
       "G", "H", "I", "J", "K", "L", "M", "N", "O", "P", "Q", "R", "S", "T",
       "U", "V", "W", "X", "Y", "Z", "[", "]", "^", "_", "a", "b",
       "c", "d", "e", "f", "g", "h", "i", "j", "k", "l", "m", "n", "o", "p",
       "q", "r", "s", "t", "u", "v", "w", "x", "y", "z", "{", "|", "}", "~" >>

Ascii(c) == CHOOSE i \in 1..Len(AsciiOrder) : AsciiOrder[i] = c

\* byte-wise s < t
RECURSIVE StrLess(_, _)
StrLess(s, t) ==
    IF t = <<>> THEN FALSE
    ELSE IF s = <<>> THEN TRUE
    ELSE IF Head(s) = Head(t) THEN StrLess(Tail(s), Tail(t))
    ELSE Ascii(Head(s)) < Ascii(Head(t))

\* the lines of a text file: newline-terminated records
FileLines(text) == ScanLines(text)

\* the text of a file holding these lines
RECURSIVE LinesText(_)
LinesText(ls) == IF ls = <<>> THEN <<>> ELSE Head(ls) \o <<"\n">> \o LinesText(Tail(ls))

\* sort -u: the distinct lines in byte order
RECURSIVE SortSet(_)
SortSet(S) ==
    IF S = {} THEN <<>>
    ELSE LET m == CHOOSE x \in S : \A y \in S \ {x} : StrLess(x, y)
         IN  <<m>> \o SortSet(S \ {m})

SortU(ls) == SortSet(SeqToSet(ls))

\* the bracket expression [a-z0-9.-]
HostClass == {"a", "b", "c", "d", "e", "f", "g", "h", "i", "j", "k", "l", "m", "n", "o", "p", "q", "r", "s", "t", "u", "v", "w", "x", "y", "z",
              "0", "1", "2", "3", "4", "5", "6", "7", "8", "9", ".", "-"}

\* the target interpolated into a grep -E pattern: "." matches any
\* character, the other characters of the modelled targets match themselves
MatchesPattern(s, pat) ==
    /\ Len(s) = Len(pat)
    /\ \A i \in 1..Len(pat) : pat[i] = "." \/ s[i] = pat[i]

\* grep -E '[a-z0-9.-]+\.DOMAIN$' (subdomain.go:119 and :156): some class
\* character, a literal dot and the target end the line
GrepUnanchored(line, domain) ==
    LET n == Len(line)
        d == Len(domain)
    IN  /\ n >= d + 2
        /\ MatchesPattern(SubSeq(line, n - d + 1, n), domain)
        /\ line[n - d] = "."
        /\ line[n - d - 1] \in HostClass

\* grep -E '^[[:space:]]*[a-z0-9.-]+\.DOMAIN$' (subdomain.go:145)
GrepAnchored(line, domain) ==
    LET t == TrimLeftSet(line, {" ", "\t", "\n", "\r"})
        n == Len(t)
        d == Len(domain)
    IN  /\ n >= d + 2
        /\ MatchesPattern(SubSeq(t, n - d + 1, n), domain)
        /\ t[n - d] = "."
        /\ \A i \in 1..(n - d - 1) : t[i] \in HostClass

\* sed 's/\*\.//' : the first "*." of the line is removed
RECURSIVE SedStar(_)
SedStar(line) ==
    IF Len(line) < 2 THEN line
    ELSE IF line[1] = "*" /\ line[2] = "." THEN SubSeq(line, 3, Len(line))
    ELSE <<Head(line)>> \o SedStar(Tail(line))

\* what runHarvester leaves in outFile: ... | grep | sort -u > outFile
harvesterFile(out, domain) ==
    LET Keep(l) == GrepUnanchored(l, domain)
    IN  LinesText(SortU(SelectSeq(FileLines(out), Keep)))

\* what runReconNg leaves in outFile: ... | grep | sed 's/^[[:space:]]*//' | sort -u
reconNgFile(out, domain) ==
    LET Keep(l) == GrepAnchored(l, domain)
        kept == SelectSeq(FileLines(out), Keep)
    IN  LinesText(SortU([i \in 1..Len(kept) |->
                            TrimLeftSet(kept[i], {" ", "\t", "\n", "\r"})]))

\* what runCrtSh leaves in outFile: ... | sed 's/\*\.//' | grep | sort -u
crtShFile(out, domain) ==
    LET Keep(l) == GrepUnanchored(l, domain)
        ls == FileLines(out)
    IN  LinesText(SortU(SelectSeq([i \in 1..Len(ls) |-> SedStar(ls[i])], Keep)))

\* sort -u harvFile reconFile crtFile > finalFile (subdomain.go:97-98)
mergeFiles(h, r, c) == LinesText(SortU(FileLines(h) \o FileLines(r) \o FileLines(c)))

(* ------------------------------------------------------------------ *)
(* the liveness filter of recon/subdomain.go                           *)
(* ------------------------------------------------------------------ *)

\* the longest target isValidDomain accepts (subdomain.go:230)
MaxDomainLength == 253

\* isValidDomain(d)
isValidDomain(d) ==
    /\ ~(Len(d) = 0 \/ Len(d) > MaxDomainLength)
    /\ ~ContainsAny(d, {" ", "\t"})
    /\ Contains(d, <<".">>)
    /\ ~(\/ HasPrefix(d, <<".">>) \/ HasSuffix(d, <<".">>)
         \/ HasPrefix(d, <<"-">>) \/ HasSuffix(d, <<"-">>))

\* a Go slice: the nil slice and the empty non-nil slice are different
\* values with the same length
NilSlice == [nil |-> TRUE, items |-> <<>>]

EmptySlice == [nil |-> FALSE, items |-> <<>>]

\* append(s, x): appending to the nil slice allocates
AppendSlice(s, x) == [nil |-> FALSE, items |-> Append(s.items, x)]

\* the want set of probeWithCurl (subdomain.go:205-208)
wantCodes(codes) ==
    LET parts == Split(codes, ",")
    IN  {TrimSpace(parts[i]) : i \in 1..Len(parts)}

\* the host loop leaving at the first invalid host instead of skipping it
RECURSIVE curlLoopBreak(_, _, _, _)
curlLoopBreak(hs, want, curlf, acc) ==
    IF hs = <<>> THEN acc
    ELSE LET h == Head(hs)
         IN  IF ~isValidDomain(h) THEN acc
             ELSE curlLoopBreak(Tail(hs), want, curlf,
                      IF curlf[h] \in want THEN AppendSlice(acc, h) ELSE acc)

\* the host loop of probeWithCurl (subdomain.go:209-219); curl[h] is what
\* curlStatus(h) returns
RECURSIVE curlLoop(_, _, _, _)
curlLoop(hosts, want, curl, alive) ==
    IF hosts = <<>> THEN alive
    ELSE LET h == Head(hosts)
         IN  curlLoop(Tail(hosts), want, curl,
                 IF isValidDomain(h) /\ curl[h] \in want
                 THEN AppendSlice(alive, h)
                 ELSE alive)

\* probeWithCurl(hosts, codes, debug)
probeWithCurl(hosts, codes, curl) == curlLoop(hosts, wantCodes(codes), curl, NilSlice)

\* the line loop of probeWithHttpx over httpx's stdout (subdomain.go:185-195)
RECURSIVE httpxLoop(_, _)
httpxLoop(ls, alive) ==
    IF ls = <<>> THEN alive
    ELSE LET line == TrimSpace(Head(ls))
             u    == Fields(line)
         IN  httpxLoop(Tail(ls),
                 IF line # <<>> /\ Len(u) > 0
                 THEN AppendSlice(alive,
                          TrimSuffix(TrimPrefix(u[1], <<"h","t","t","p","s",":","/","/">>),
                                     <<"/">>))
                 ELSE alive)

parseHttpx(out) == httpxLoop(Split(out, "\n"), NilSlice)


(* ------------------------------------------------------------------ *)
(* the WHOIS normalizer of recon/whois.go                              *)
(* ------------------------------------------------------------------ *)

UpperLetters == << "A", "B", "C", "D", "E", "F", "G", "H", "I", "J", "K", "L", "M", "N", "O", "P", "Q", "R", "S", "T", "U", "V", "W", "X", "Y", "Z" >>

LowerLetters == << "a", "b", "c", "d", "e", "f", "g", "h", "i", "j", "k", "l", "m", "n", "o", "p", "q", "r", "s", "t", "u", "v", "w", "x", "y", "z" >>

LowerChar(c) ==
    IF \E i \in 1..26 : UpperLetters[i] = c
    THEN LowerLetters[CHOOSE i \in 1..26 : UpperLetters[i] = c]
    ELSE c

\* strings.ToLower(s)
ToLower(s) == [i \in 1..Len(s) |-> LowerChar(s[i])]

DigitChars == <<"0", "1", "2", "3", "4", "5", "6", "7", "8", "9">>

IsDigit(c) == \E i \in 1..10 : DigitChars[i] = c

DigitVal(c) == (CHOOSE i \in 1..10 : DigitChars[i] = c) - 1

\* the decimal value of a run of digits
RECURSIVE Atoi(_)
Atoi(s) == IF s = <<>> THEN 0 ELSE 10 * Atoi(SubSeq(s, 1, Len(s) - 1)) + DigitVal(s[Len(s)])

AllDigits(s) == \A i \in 1..Len(s) : IsDigit(s[i])

\* n as exactly w decimal digits, zero-padded
RECURSIVE Pad(_, _)
Pad(n, w) == IF w = 0 THEN <<>> ELSE Pad(n \div 10, w - 1) \o <<DigitChars[(n % 10) + 1]>>

\* the month abbreviations of package time, lower-cased ("Jan" in a layout
\* matches them without regard to case)
MonthNames ==
    << <<"j", "a", "n">>, <<"f", "e", "b">>, <<"m", "a", "r">>, <<"a", "p", "r">>, <<"m", "a", "y">>, <<"j", "u", "n">>, <<"j", "u", "l">>, <<"a", "u", "g">>, <<"s", "e", "p">>, <<"o", "c", "t">>, <<"n", "o", "v">>, <<"d", "e", "c">> >>

IsLeap(y) == (y % 4 = 0) /\ ((y % 100 # 0) \/ (y % 400 = 0))

DaysIn(m, y) ==
    IF m = 2 THEN (IF IsLeap(y) THEN 29 ELSE 28)
    ELSE IF m \in {4, 6, 9, 11} THEN 30 ELSE 31

\* the layouts of parseDate (whois.go:145-152) as sequences of elements:
\* "Y" 2006, "M" 01, "D" 02, "h" 15, "m" 04, "s" 05, "N" Jan; any other
\* element is a literal character
Layouts ==
    << <<"Y", "-", "M", "-", "D", "T", "h", ":", "m", ":", "s", "Z">>,
       <<"Y", "-", "M", "-", "D", " ", "h", ":", "m", ":", "s">>,
       <<"Y", "-", "M", "-", "D">>,
       <<"D", "-", "N", "-", "Y">>,
       <<"Y", ".", "M", ".", "D">>,
       <<"D", "/", "M", "/", "Y">> >>

NoDate == [ok |-> FALSE, y |-> 0, m |-> 0, d |-> 0]

ElemWidth(e) == IF e = "Y" THEN 4 ELSE IF e = "N" THEN 3 ELSE IF e \in {"M", "D", "h", "m", "s"} THEN 2 ELSE 1

\* time.Parse(layout, v) element by element; acc carries the fields read
RECURSIVE ParseLayout(_, _, _)
ParseLayout(layout, v, acc) ==
    IF layout = <<>>
    THEN IF v = <<>> /\ acc.m \in 1..12 /\ acc.d \in 1..DaysIn(acc.m, acc.y)
         THEN [acc EXCEPT !.ok = TRUE]
         ELSE NoDate
    ELSE LET e == Head(layout)
             w == ElemWidth(e)
             f == SubSeq(v, 1, w)
             rest == SubSeq(v, w + 1, Len(v))
         IN  IF Len(v) < w THEN NoDate
             ELSE IF e \in {"Y", "M", "D", "h", "m", "s"}
             THEN IF ~AllDigits(f) THEN NoDate
                  ELSE LET n == Atoi(f) IN
                       CASE e = "Y" -> ParseLayout(Tail(layout), rest, [acc EXCEPT !.y = n])
                         [] e = "M" -> ParseLayout(Tail(layout), rest, [acc EXCEPT !.m = n])
                         [] e = "D" -> ParseLayout(Tail(layout), rest, [acc EXCEPT !.d = n])
                         [] e = "h" -> IF n < 24 THEN ParseLayout(Tail(layout), rest, acc) ELSE NoDate
                         [] OTHER   -> IF n < 60 THEN ParseLayout(Tail(layout), rest, acc) ELSE NoDate
             ELSE IF e = "N"
             THEN IF \E i \in 1..12 : MonthNames[i] = ToLower(f)
                  THEN ParseLayout(Tail(layout), rest,
                           [acc EXCEPT !.m = CHOOSE i \in 1..12 : MonthNames[i] = ToLower(f)])
                  ELSE NoDate
             ELSE IF f = <<e>> THEN ParseLayout(Tail(layout), rest, acc) ELSE NoDate

\* the format loop of parseDate from layout i on
RECURSIVE parseDateFrom(_, _)
parseDateFrom(i, v) ==
    IF i > Len(Layouts) THEN v
    ELSE LET t == ParseLayout(Layouts[i], v, NoDate)
         IN  IF t.ok
             THEN Pad(t.y, 4) \o <<"-">> \o Pad(t.m, 2) \o <<"-">> \o Pad(t.d, 2)
             ELSE parseDateFrom(i + 1, v)

\* parseDate(dateStr)
parseDate(v) == parseDateFrom(1, v)

\* anyOf(key, needles...)
anyOf(key, needles) == \E n \in needles : Contains(key, n)

\* contains(slice, item)
contains(slice, item) == \E i \in 1..Len(slice) : slice[i] = item

\* strings.EqualFold on ASCII text
EqualFold(a, b) == ToLower(a) = ToLower(b)

\* strings.SplitN(line, ":", 2) of a line that holds a colon
SplitColon(line) ==
    LET i == CHOOSE k \in 1..Len(line) : line[k] = ":" /\ \A j \in 1..(k - 1) : line[j] # ":"
    IN  <<SubSeq(line, 1, i - 1), SubSeq(line, i + 1, Len(line))>>

\* WhoisResult{Domain, NameServers: []string{}, Status: []string{}}
NewWhoisResult(d) ==
    [Domain |-> d, Registrar |-> <<>>, CreationDate |-> <<>>, ExpirationDate |-> <<>>,
     UpdatedDate |-> <<>>, NameServers |-> <<>>, Status |-> <<>>, DNSSEC |-> <<>>,
     Raw |-> <<>>]

\* the switch of the parse loop (whois.go:103-120): the first case whose
\* whole condition holds is taken
classify(r, key, value) ==
    IF Contains(key, <<"r", "e", "g", "i", "s", "t", "r", "a", "r">>) /\ r.Registrar = <<>>
    THEN [r EXCEPT !.Registrar = value]
    ELSE IF /\ anyOf(key, {<<"c", "r", "e", "a", "t", "e", "d">>, <<"c", "r", "e", "a", "t", "i", "o", "n", " ", "d", "a", "t", "e">>,
                        <<"r", "e", "g", "i", "s", "t", "e", "r", "e", "d", " ", "o", "n">>})
            /\ r.CreationDate = <<>>
    THEN [r EXCEPT !.CreationDate = parseDate(value)]
    ELSE IF /\ anyOf(key, {<<"e", "x", "p", "i", "r", "e", "s">>, <<"e", "x", "p", "i", "r", "a", "t", "i", "o", "n">>,
                        <<"e", "x", "p", "i", "r", "y", " ", "d", "a", "t", "e">>,
                        <<"r", "e", "g", "i", "s", "t", "r", "y", " ", "e", "x", "p", "i", "r", "y">>})
            /\ r.ExpirationDate = <<>>
    THEN [r EXCEPT !.ExpirationDate = parseDate(value)]
    ELSE IF /\ anyOf(key, {<<"u", "p", "d", "a", "t", "e", "d">>, <<"m", "o", "d", "i", "f", "i", "e", "d">>, <<"c", "h", "a", "n", "g", "e", "d">>})
            /\ r.UpdatedDate = <<>>
    THEN [r EXCEPT !.UpdatedDate = parseDate(value)]
    ELSE IF /\ anyOf(key, {<<"n", "a", "m", "e", " ", "s", "e", "r", "v", "e", "r">>, <<"n", "s", "e", "r", "v", "e", "r">>})
            /\ ~EqualFold(value, <<"u", "n", "s", "i", "g", "n", "e", "d">>)
    THEN IF ~contains(r.NameServers, value)
         THEN [r EXCEPT !.NameServers = Append(@, value)]
         ELSE r
    ELSE IF HasPrefix(key, <<"s", "t", "a", "t", "u", "s">>) /\ ~contains(r.Status, value)
    THEN [r EXCEPT !.Status = Append(@, value)]
    ELSE IF anyOf(key, {<<"d", "n", "s", "s", "e", "c">>, <<"d", "s", " ", "d", "a", "t", "a">>})
    THEN [r EXCEPT !.DNSSEC = value]
    ELSE r

\* one iteration of the parse loop (whois.go:91-120)
whoisLine(r, rawLine) ==
    LET line == TrimSpace(rawLine) IN
    IF line = <<>> \/ ~Contains(line, <<":">>) THEN r
    ELSE LET parts == SplitColon(line)
             key   == TrimSpace(ToLower(parts[1]))
             value == TrimSpace(parts[2])
         IN  IF value = <<>> THEN r ELSE classify(r, key, value)

RECURSIVE whoisLines(_, _)
whoisLines(r, ls) == IF ls = <<>> THEN r ELSE whoisLines(whoisLine(r, Head(ls)), Tail(ls))

\* "empty response from all whois sources"
emptyResponse ==
    << "e", "m", "p", "t", "y", " ", "r", "e", "s", "p", "o", "n", "s", "e",
       " ", "f", "r", "o", "m", " ", "a", "l", "l", " ", "w", "h", "o", "i",
       "s", " ", "s", "o", "u", "r", "c", "e", "s" >>

\* performWhoisLookup from step 3 on (whois.go:80-122)
whoisTail(r, raw, dbg) ==
    LET r1 == IF dbg THEN [r EXCEPT !.Raw = raw] ELSE r
    IN  IF TrimSpace(raw) = <<>>
        THEN [r1 EXCEPT !.Raw = emptyResponse]
        ELSE whoisLines(r1, Split(raw, "\n"))

(* ------------------------------------------------------------------ *)
(* state                                                               *)
(* ------------------------------------------------------------------ *)

VARIABLES
    cmd,        \* the command that was invoked, or the function called directly
    pc,         \* where the invocation stands
    domain,     \* --domain
    passive,    \* --passive
    debug,      \* --debug
    codes,      \* --codes
    path,       \* the binaries exec.LookPath finds on this host
    result,     \* amass: the AmassResult being built
    seen,       \* amass: the seen map shared by the parser and the fallback
    mergeLog,   \* history: the (source, output) pairs handed to parseAmassOut
    res,        \* recon: the SubdomainResult being built
    tmpDir,     \* recon: the scratch directory: "none", "exists", "removed"
    files,      \* recon: the files of the scratch directory
    task,       \* recon: the three goroutines
    wg,         \* recon: the sync.WaitGroup counter
    hosts,      \* liveness filter: the candidate list
    alive,      \* liveness filter: the slice it returns
    curl,       \* history: what curlStatus answered for each host
    raw,        \* whois: the raw response in use
    wres,       \* whois: the WhoisResult being built
    srv,        \* whois: the index of the TCP server being tried
    probeRaw,   \* history: what the most recent WHOIS probe returned
    started,    \* history: every probe dispatched, with the target given to it
    outcome,    \* history: how each probe of a fallback chain ended
    access,     \* history: which goroutine read or wrote which sink
    timeout,    \* preengagement: --timeout, in seconds
    valid,      \* what isValidDomain returned, when it is called directly
    avres,      \* preengagement: the AvailabilityResult being built
    rules,      \* preengagement: the rules map of testFirewallWithHping3
    cause,      \* history: how each hping3 sub-probe ended
    deadline,   \* history: the deadline, in seconds, each sub-probe ran under
    fres        \* fuff: the FuffResult being built

vars == <<cmd, pc, domain, passive, debug, codes, path, result, seen, mergeLog,
          res, tmpDir, files, task, wg, hosts, alive, curl, raw, wres, srv,
          probeRaw, started, outcome, access, timeout, valid, avres, rules,
          cause, deadline, fres>>

amassVars == <<result, seen, mergeLog>>

reconVars == <<res, tmpDir, files, task, wg>>

filterVars == <<hosts, alive, curl>>

whoisVars == <<raw, wres, srv, probeRaw>>

inputVars == <<cmd, domain, passive, debug, codes, path, timeout>>

availVars == <<valid, avres, rules, cause, deadline>>

Tasks == {"harvester", "reconng", "crtsh"}

FileNames == {"harvester.txt", "reconng.txt", "crtsh.txt", "final.txt", "recon.script"}

\* every goroutine redirecting into the harvester's file
outFileShared(t) == "harvester.txt"

\* the file each goroutine's pipeline redirects into (subdomain.go:72-74)
outFile(t) ==
    CASE t = "harvester" -> "harvester.txt"
      [] t = "reconng"   -> "reconng.txt"
      [] t = "crtsh"     -> "crtsh.txt"

\* what goroutine t writes while it runs: the file its pipeline redirects
\* into (which theHarvester is also given with -f); for recon-ng also the
\* script written beside it and the workspace named by -w
\* (subdomain.go:119-120, 130, 143-146, 156-157)
taskWrites(t) ==
    {outFile(t)} \cup (IF t = "reconng" THEN {"recon.script", "workspace"} ELSE {})

\* what goroutine t reads: recon-ng -r reads the script (subdomain.go:145)
taskReads(t) == IF t = "reconng" THEN {"recon.script"} ELSE {}

Access(t, sink, mode) == [task |-> t, sink |-> sink, mode |-> mode]

NoFile == [exists |-> FALSE, text |-> <<>>]

File(text) == [exists |-> TRUE, text |-> text]

\* the servers of fallbackWhois, in its order (whois.go:163-168)
whoisServers ==
    <<"whois.verisign-grs.com:43", "whois.iana.org:43", "whois.nic.ru:43",
      "whois.godaddy.com:43">>

\* the probes that stand in a fallback chain
ChainProbes == {"amass", "httpx", "curl", "whoislib"} \cup SeqToSet(whoisServers)

NoOutcome == [done |-> FALSE, err |-> FALSE, nonempty |-> FALSE]

Outcome(err, nonempty) == [done |-> TRUE, err |-> err, nonempty |-> nonempty]

Probe(p, target) == [probe |-> p, target |-> target]

\* SubdomainResult{Domain: domain, Subdomains: []string{}} (subdomain.go:49-52)
NewSubdomainResult(d) == [Domain |-> d, Subdomains |-> EmptySlice, Count |-> 0]

\* --codes values: the default and one with a space after the comma
defaultCodes == <<"2", "0", "0", ",", "3", "0", "1", ",", "3", "0", "2", ",", "4", "0", "3">>

spacedCodes == <<"2", "0", "0", ",", " ", "4", "0", "4">>

Codes == {defaultCodes, spacedCodes}

\* what curl -w '%{http_code}' may print
CurlCodes == {<<"2", "0", "0">>, <<"4", "0", "4">>}

\* lines the three discovery tools may print for a target
ReconLines(d) ==
    { <<"a", ".">> \o d,
      <<"*", ".", "w", ".">> \o d,
      <<" ", "b", ".">> \o d,
      <<"x">> }

ToolOutputs(d) == {LinesText(ls) : ls \in SeqsUpTo(ReconLines(d), MaxToolLines)}

\* candidate lists handed to the liveness filter when it is called directly
FilterHosts == { <<"a", ".", "e", ".", "c">>, <<"w", ".", "e", ".", "c">>, <<"-", "x", ".", "c">> }

CandidateLists == SeqsUpTo(FilterHosts, MaxHosts)

\* lines httpx may print for the candidates it was given: with the scheme
\* it reached the host on, and the status code
HttpxLines(hs) ==
    UNION { { <<"h","t","t","p","s",":","/","/">> \o hs[i] \o <<" ","[","2","0","0","]">>,
              <<"h","t","t","p",":","/","/">> \o hs[i] \o <<" ","[","2","0","0","]">> }
            : i \in 1..Len(hs) }

HttpxOutputs(hs) == {LinesText(ls) : ls \in SeqsUpTo(HttpxLines(hs), MaxHttpxLines)}

\* outputs handed to the merge when it is called directly: the entity
\* lists of the spec's scenario and variants of them
MergeOutputs ==
    { LinesText(<< <<"a", ".", "e", ".", "c">> >>),
      LinesText(<< <<"w", ".", "e", ".", "c">>, <<"a", ".", "e", ".", "c">> >>),
      LinesText(<< <<"[", "b", ".", "e", ".", "c", "]", " ", "x">>, <<" ", "a", ".", "e", ".", "c">> >>) }

MergeSources == {"A", "B"}

\* responses a WHOIS source may give
WhoisRaws ==
    { <<>>,
      <<" ", "\n">>,
      LinesText(<< <<"R", "e", "g", "i", "s", "t", "r", "a", "r", ":", " ", "R">> >>),
      LinesText(<< <<"D", "N", "S", "S", "E", "C", ":", " ", "s", "i", "g", "n", "e", "d">>,
                   <<"N", "a", "m", "e", " ", "S", "e", "r", "v", "e", "r", ":", " ", "n">> >>),
      \* records that repeat a field
      LinesText(<< <<"R", "e", "g", "i", "s", "t", "r", "a", "r", ":", " ", "R">>,
                   <<"R", "e", "g", "i", "s", "t", "r", "a", "r", ":", " ", "S">>,
                   <<"E", "x", "p", "i", "r", "e", "s", ":", " ", "x">>,
                   <<"E", "x", "p", "i", "r", "e", "s", ":", " ", "y">> >>),
      LinesText(<< <<"C", "r", "e", "a", "t", "e", "d", ":", " ", "2", "0", "2", "0", "-", "0", "1", "-", "0", "2">>,
                   <<"C", "r", "e", "a", "t", "i", "o", "n", " ", "D", "a", "t", "e", ":", " ", "0", "2", "-", "J", "a", "n", "-", "2", "0", "2", "1">> >>),
      LinesText(<< <<"U", "p", "d", "a", "t", "e", "d", ":", " ", "2", "0", "2", "0", ".", "0", "3", ".", "0", "4">>,
                   <<"U", "p", "d", "a", "t", "e", "d", ":", " ", "z">> >>),
      LinesText(<< <<"N", "a", "m", "e", " ", "S", "e", "r", "v", "e", "r", ":", " ", "n">>,
                   <<"N", "a", "m", "e", " ", "S", "e", "r", "v", "e", "r", ":", " ", "n">>,
                   <<"S", "t", "a", "t", "u", "s", ":", " ", "o", "k">>,
                   <<"S", "t", "a", "t", "u", "s", ":", " ", "o", "k">> >>),
      LinesText(<< <<"D", "N", "S", "S", "E", "C", ":", " ", "s", "i", "g", "n", "e", "d">>,
                   <<"D", "N", "S", "S", "E", "C", ":", " ", "o", "f", "f">> >>) }

\* a target of n characters in labels of three: "aaa.aaa. ... "
LongName(n) == [i \in 1..n |-> IF i % 4 = 0 THEN "." ELSE "a"]

\* targets handed to isValidDomain when it is called directly
ValidateInputs ==
    { <<>>,
      <<"e", ".", "c">>,
      <<"a", ".", ".", "b", ".", "c">>,
      <<"-", "b", ".", "c">>,
      <<"b", ".", "c", "-">>,
      <<".", "b", ".", "c">>,
      <<"b", ".", "c", ".">>,
      <<"a", " ", "b", ".", "c">>,
      <<"a", "\t", "b", ".", "c">>,
      <<"a", "\n", "b", ".", "c">>,
      <<"a", "b", "c">>,
      LongName(MaxDomainLength),
      LongName(MaxDomainLength + 1) }

\* --timeout of the preengagement command: its default (availability.go:39)
DefaultTimeout == 30

\* values the caller may pass with --timeout
Timeouts == {5, 12, DefaultTimeout}

\* the AvailabilityResult literal of performAvailabilityTest
\* (availability.go:46-52); Timestamp is the wall clock and is left out
NewAvailabilityResult(t) ==
    [Target |-> t, IsAvailable |-> FALSE, FirewallRules |-> <<>>, Methods |-> <<>>]

\* FuffResult{Domain: domain}: Subdomains is the nil slice, Count is 0
NewFuffResult(d) == [Domain |-> d, Subdomains |-> NilSlice, Count |-> 0]

\* what ffuf -s -of csv may print on stdout
FfufOutputs ==
    { <<>>,
      LinesText(<< <<"i", "n", "p", "u", "t", ",", "u", "r", "l">>,
                   <<"a", "d", "m", "i", "n", ",", "2", "0", "0">> >>),
      LinesText(<< <<" ", "g", "i", "t", ",", "3", "0", "1">>,
                   <<"e", "r", "r", "o", "r", ":", " ", "x", ",", "0">>,
                   <<>>,
                   <<"b", "i", "n">> >>) }

Commands == {"amass", "merge", "recon", "filter", "whois", "validate", "avail", "fuff"}

Init ==
    /\ cmd \in Commands
    /\ pc = "start"
    /\ domain \in (CASE cmd \in {"amass", "recon", "whois"} -> Domains
                     [] cmd = "validate" -> ValidateInputs
                     [] OTHER -> {dEC})
    /\ passive \in (IF cmd = "amass" THEN BOOLEAN ELSE {TRUE})
    /\ debug \in (IF cmd \in {"amass", "whois", "recon"} THEN BOOLEAN ELSE {FALSE})
    /\ codes \in (IF cmd \in {"recon", "filter"} THEN Codes ELSE {defaultCodes})
    /\ path \in (CASE cmd = "amass"  -> {{}, {"amass"}}
                   [] cmd = "recon"  -> SUBSET {"theHarvester", "recon-ng", "httpx"}
                   [] cmd = "filter" -> {{}, {"httpx"}}
                   [] cmd = "avail"  -> {{}, {"fping", "hping3", "nmap"}}
                   [] cmd = "fuff"   -> {{}, {"ffuf"}}
                   [] OTHER          -> {{}})
    /\ result = NewAmassResult(domain)
    /\ seen = {}
    /\ mergeLog = <<>>
    /\ res = NewSubdomainResult(domain)
    /\ tmpDir = "none"
    /\ files = [f \in FileNames |-> NoFile]
    /\ task = [t \in Tasks |-> "idle"]
    /\ wg = 0
    /\ hosts \in (IF cmd = "filter" THEN CandidateLists ELSE {<<>>})
    /\ alive = NilSlice
    /\ curl = <<>>
    /\ raw = <<>>
    /\ wres = NewWhoisResult(domain)
    /\ srv = 0
    /\ probeRaw = <<>>
    /\ started = {}
    /\ outcome = [p \in ChainProbes |-> NoOutcome]
    /\ access = {}
    /\ timeout \in (IF cmd = "avail" THEN Timeouts ELSE {DefaultTimeout})
    /\ valid = "none"
    /\ avres = NewAvailabilityResult(domain)
    /\ rules = <<>>
    /\ cause = <<>>
    /\ deadline = <<>>
    /\ fres = NewFuffResult(domain)

(* ------------------------------------------------------------------ *)
(* performDebugAmass                                                   *)
(* ------------------------------------------------------------------ *)

\* performDebugAmass is called
AtAmassLaunch == cmd = "amass" /\ pc = "start"

\* performDebugAmass up to the start of the amass process (amass.go:80-128):
\* the result literal, the mode, the context with its deadline, the
\* arguments; the process then runs, or never answers on its own
AmassLaunch ==
    /\ AtAmassLaunch
    /\ result' = [NewAmassResult(domain) EXCEPT
                     !.Mode = IF ~passive THEN "active" ELSE @]
    /\ seen' = {}
    /\ started' = started \cup {Probe("amass", domain)}
    /\ \E st \in {"amass_running", "amass_hung"} : pc' = st
    /\ UNCHANGED <<inputVars, fres, availVars, access, whoisVars, mergeLog, reconVars, filterVars, outcome>>

\* runAmassOnce from the return of CombinedOutput on (amass.go:128-146)
runAmassTail(out, err, r, seenSet, d, pas, dbg) ==
    LET args == amassArgs(d, pas, AmassTimeout)
        r1 == IF dbg
              THEN [r EXCEPT
                      !.Debug.RawOutput =
                          @ \o << <<"Command: amass", args>>, <<"Output:", out>> >>,
                      !.Debug.TotalLines = @ + Len(Split(out, "\n"))]
              ELSE r
    IN  IF err # "nil" /\ Len(out) = 0
        THEN [result |-> IF dbg
                         THEN [r1 EXCEPT !.Debug.ParseErrors = Append(@, err)]
                         ELSE r1,
              seen   |-> seenSet,
              parsed |-> FALSE]
        ELSE LET st == parseAmassOut(out, d, "amass",
                                     [r1 EXCEPT !.Command = args], seenSet, dbg)
             IN  [result |-> st.result, seen |-> st.seen, parsed |-> TRUE]

\* what CombinedOutput may return: a missing binary fails to start and
\* prints nothing; a process that never answers is killed at the context's
\* deadline, whatever it has printed so far; a process that exits does so
\* with or without an error
AmassReturns(out, err) ==
    IF "amass" \notin path THEN out = <<>> /\ err = "notfound"
    ELSE IF pc = "amass_hung" THEN err = "killed"
    ELSE err \in {"nil", "exit"}

\* CombinedOutput is waiting for amass, under the deadline of its context
AtAmassExit == cmd = "amass" /\ pc \in {"amass_running", "amass_hung"}

AmassExit ==
    /\ AtAmassExit
    /\ \E out \in AmassOutputs, err \in {"nil", "exit", "killed", "notfound"} :
          /\ AmassReturns(out, err)
          /\ LET st == runAmassTail(out, err, result, seen, domain, passive, debug)
             IN  /\ result' = st.result
                 /\ seen' = st.seen
                 /\ mergeLog' = IF st.parsed
                                THEN Append(mergeLog, [source |-> "amass", output |-> out])
                                ELSE mergeLog
          /\ outcome' = [outcome EXCEPT !["amass"] = Outcome(err # "nil", Len(out) > 0)]
    /\ pc' = "amass_done"
    /\ UNCHANGED <<inputVars, fres, availVars, access, whoisVars, reconVars, filterVars, started>>

\* performDebugAmass calling the indicator fallback whatever amass found
performDebugAmassAlwaysFallback(r, seenSet, d, dbg) ==
    LET st == fallbackIndicators(d, r, seenSet, dbg)
    IN  [result |-> [st.result EXCEPT !.Status = "completed",
                                      !.Count = Len(st.result.Subdomains)],
         seen   |-> st.seen]

\* performDebugAmass returning without setting Status
performDebugAmassLeavesRunning(r, seenSet, d, dbg) ==
    LET st == IF Len(r.Subdomains) = 0
              THEN fallbackIndicators(d, r, seenSet, dbg)
              ELSE [result |-> r, seen |-> seenSet]
    IN  [result |-> [st.result EXCEPT !.Count = Len(st.result.Subdomains)],
         seen   |-> st.seen]

\* performDebugAmass after runAmassOnce (amass.go:102-108)
performDebugAmassTail(r, seenSet, d, dbg) ==
    LET st == IF Len(r.Subdomains) = 0
              THEN fallbackIndicators(d, r, seenSet, dbg)
              ELSE [result |-> r, seen |-> seenSet]
    IN  [result |-> [st.result EXCEPT !.Status = "completed",
                                      !.Count = Len(st.result.Subdomains)],
         seen   |-> st.seen]

\* runAmassOnce has returned
AtAmassReturn == cmd = "amass" /\ pc = "amass_done"

AmassReturn ==
    /\ AtAmassReturn
    /\ LET st == performDebugAmassTail(result, seen, domain, debug)
       IN  /\ result' = st.result
           /\ seen' = st.seen
    /\ pc' = "returned"
    /\ UNCHANGED <<inputVars, fres, availVars, access, whoisVars, mergeLog, reconVars, filterVars, started, outcome>>

\* parseAmassOut may be applied once more
AtMergeCall == cmd = "merge" /\ Len(mergeLog) < MaxMerges

\* parseAmassOut called directly, any number of times, on one result and
\* one seen set
MergeCall ==
    /\ AtMergeCall
    /\ \E source \in MergeSources, out \in MergeOutputs :
          LET st == parseAmassOut(out, domain, source, result, seen, debug)
          IN  /\ result' = st.result
              /\ seen' = st.seen
              /\ mergeLog' = Append(mergeLog, [source |-> source, output |-> out])
    /\ UNCHANGED <<inputVars, fres, availVars, access, whoisVars, pc, reconVars, filterVars, started, outcome>>


(* ------------------------------------------------------------------ *)
(* performSubdomainEnum                                                *)
(* ------------------------------------------------------------------ *)

\* "error: theHarvester not in PATH"
errNoHarvester ==
    << "e", "r", "r", "o", "r", ":", " ", "t", "h", "e", "H", "a", "r", "v",
       "e", "s", "t", "e", "r", " ", "n", "o", "t", " ", "i", "n", " ", "P",
       "A", "T", "H" >>

\* "error: recon-ng not in PATH"
errNoReconNg ==
    << "e", "r", "r", "o", "r", ":", " ", "r", "e", "c", "o", "n", "-", "n",
       "g", " ", "n", "o", "t", " ", "i", "n", " ", "P", "A", "T", "H" >>

\* "temp-dir-error: " and the text of the error ioutil.TempDir returned
errTempDir ==
    << "t", "e", "m", "p", "-", "d", "i", "r", "-", "e", "r", "r", "o", "r",
       ":", " ", "m", "k", "d", "i", "r", " ", "/", "t", "m", "p", "/", "r",
       "e", "c", "o", "n", "-", "1", ":", " ", "n", "o", " ", "s", "p", "a",
       "c", "e", " ", "l", "e", "f", "t", " ", "o", "n", " ", "d", "e", "v",
       "i", "c", "e" >>

\* the binary a goroutine's pipeline runs
tool(t) ==
    CASE t = "harvester" -> "theHarvester"
      [] t = "reconng"   -> "recon-ng"
      [] t = "crtsh"     -> "curl"

\* what the goroutine's pipeline leaves in its file for the tool's output
pipeline(t, out, d) ==
    CASE t = "harvester" -> harvesterFile(out, d)
      [] t = "reconng"   -> reconNgFile(out, d)
      [] t = "crtsh"     -> crtShFile(out, d)

\* wg.Add(3) (subdomain.go:79)
wgAdd == 3

\* performSubdomainEnum is called
AtEnumSetup == cmd = "recon" /\ pc = "start"

\* performSubdomainEnum up to wg.Wait (subdomain.go:49-92): the two
\* LookPath checks, the scratch directory, the three go statements
EnumSetup ==
    /\ AtEnumSetup
    /\ \/ /\ "theHarvester" \notin path
          /\ res' = [NewSubdomainResult(domain) EXCEPT
                        !.Subdomains = AppendSlice(EmptySlice, errNoHarvester)]
          /\ pc' = "returned"
          /\ UNCHANGED <<tmpDir, task, wg>>
       \/ /\ "theHarvester" \in path /\ "recon-ng" \notin path
          /\ res' = [NewSubdomainResult(domain) EXCEPT
                        !.Subdomains = AppendSlice(EmptySlice, errNoReconNg)]
          /\ pc' = "returned"
          /\ UNCHANGED <<tmpDir, task, wg>>
       \/ /\ "theHarvester" \in path /\ "recon-ng" \in path
          /\ \/ /\ res' = [NewSubdomainResult(domain) EXCEPT
                              !.Subdomains = AppendSlice(EmptySlice, errTempDir)]
                /\ pc' = "returned"
                /\ UNCHANGED <<tmpDir, task, wg>>
             \/ /\ res' = NewSubdomainResult(domain)
                /\ tmpDir' = "exists"
                /\ wg' = wgAdd
                /\ task' = [t \in Tasks |-> "ready"]
                /\ pc' = "wait"
    /\ UNCHANGED <<inputVars, fres, availVars, access, whoisVars, amassVars, files, filterVars, started, outcome>>

\* the script runReconNg writes beside its output file (subdomain.go:130-143)
\* (the fixed lines are kept whole; nothing reads the script back)
reconScript(d) ==
    <<"add domains ">> \o d \o
    << "\n", "use recon/domains-hosts/hackertarget", "\n", "run",
       "\n", "use recon/domains-hosts/crtsh", "\n", "run",
       "\n", "use recon/domains-hosts/virustotal", "\n", "run",
       "\n", "show hosts", "\n", "exit" >>

\* goroutine t has been created and has not run yet
AtTaskStart(t) == cmd = "recon" /\ pc = "wait" /\ task[t] = "ready"

\* goroutine t is waiting for a pipeline that ends; there is no deadline
AtTaskFinish(t) == cmd = "recon" /\ pc = "wait" /\ task[t] = "running"

\* a goroutine starts its pipeline (subdomain.go:119-122, 143-148, 156-159):
\* bash opens the redirection target and runs the tool on the target, with
\* no deadline; the tool then answers or never does
TaskStart(t) ==
    /\ AtTaskStart(t)
    /\ \E st \in {"running", "hung"} : task' = [task EXCEPT ![t] = st]
    /\ files' = [f \in FileNames |->
                    IF f = outFile(t) THEN File(<<>>)
                    ELSE IF f = "recon.script" /\ t = "reconng" THEN File(reconScript(domain))
                    ELSE files[f]]
    /\ started' = started \cup {Probe(t, domain)}
    /\ access' = access \cup {Access(t, k, "w") : k \in taskWrites(t)}
                         \cup {Access(t, k, "r") : k \in taskReads(t)}
    /\ UNCHANGED <<inputVars, fres, availVars, whoisVars, pc, amassVars, res, tmpDir, wg, filterVars, outcome>>

\* the pipeline ends: the file holds what grep and sort let through, the
\* captured output goes to os.Stderr under --debug (subdomain.go:123-125,
\* 149-151, 160-162), and the deferred wg.Done runs
TaskFinish(t) ==
    /\ AtTaskFinish(t)
    /\ \E out \in ToolOutputs(domain) :
          files' = [files EXCEPT ![outFile(t)] = File(pipeline(t, out, domain))]
    /\ task' = [task EXCEPT ![t] = "done"]
    /\ wg' = wg - 1
    /\ access' = access \cup (IF debug THEN {Access(t, "stderr", "w")} ELSE {})
    /\ UNCHANGED <<inputVars, fres, availVars, whoisVars, pc, amassVars, res, tmpDir, filterVars, started, outcome>>

\* a wait that returns as soon as one goroutine is done
WaitReturnsEarly == wg < wgAdd

\* wg.Wait returns
WaitReturns == wg = 0

\* the main goroutine is past wg.Wait
AtEnumMerge == cmd = "recon" /\ pc = "wait" /\ WaitReturns

\* steps 4 and 5 (subdomain.go:94-105): the barrier, sort -u into final.txt,
\* ReadFile and the split into lines
EnumMerge ==
    /\ AtEnumMerge
    /\ LET final == mergeFiles(files["harvester.txt"].text, files["reconng.txt"].text,
                               files["crtsh.txt"].text)
       IN  /\ files' = [files EXCEPT !["final.txt"] = File(final)]
           /\ hosts' = Split(TrimSpace(final), "\n")
    /\ pc' = "probe"
    /\ UNCHANGED <<inputVars, fres, availVars, access, whoisVars, amassVars, res, tmpDir, task, wg, alive, curl, started, outcome>>

(* ------------------------------------------------------------------ *)
(* probeWithHttpx                                                      *)
(* ------------------------------------------------------------------ *)

\* probeWithHttpx is called
AtProbe == (cmd = "recon" /\ pc = "probe") \/ (cmd = "filter" /\ pc = "start")

\* the targets probeWithCurl hands to curlStatus
curlTargets(hs) == {Probe("curl", hs[i]) : i \in {j \in 1..Len(hs) : isValidDomain(hs[j])}}

\* the per-host fallback is run and its slice is what probeWithHttpx
\* returns: curlf is what curlStatus answers for each host, and httpxEnd
\* is how the batch probe ended
RunCurl(curlf, httpxEnd) ==
    LET r == probeWithCurl(hosts, codes, curlf)
    IN  /\ alive' = r
        /\ curl' = curlf
        /\ started' = started \cup curlTargets(hosts)
        /\ outcome' = [outcome EXCEPT !["httpx"] = httpxEnd,
                                      !["curl"] = Outcome(FALSE, Len(r.items) > 0)]

\* probeWithHttpx up to the start of httpx (subdomain.go:167-180)
ProbeStart ==
    /\ AtProbe
    /\ \/ /\ Len(hosts) = 0
          /\ alive' = EmptySlice
          /\ pc' = "probe_done"
          /\ UNCHANGED <<curl, started, outcome>>
       \/ /\ Len(hosts) # 0 /\ "httpx" \notin path
          /\ \E curlf \in [SeqToSet(hosts) -> CurlCodes] :
                RunCurl(curlf, Outcome(TRUE, FALSE))
          /\ pc' = "probe_done"
       \/ /\ Len(hosts) # 0 /\ "httpx" \in path
          /\ started' = started \cup {Probe("httpx", hosts[i]) : i \in 1..Len(hosts)}
          /\ \E st \in {"httpx_running", "httpx_hung"} : pc' = st
          /\ UNCHANGED <<alive, curl, outcome>>
    /\ UNCHANGED <<inputVars, fres, availVars, access, whoisVars, amassVars, reconVars, hosts>>

\* cmd.Output is waiting for an httpx that answers; there is no deadline
AtHttpxExit == pc = "httpx_running"

\* probeWithHttpx from the return of cmd.Output on (subdomain.go:180-200):
\* the error is dropped, the lines are parsed, and the per-host fallback
\* runs when nothing was parsed
HttpxExit ==
    /\ AtHttpxExit
    /\ \E out \in HttpxOutputs(hosts), err \in BOOLEAN :
          LET parsed == parseHttpx(out)
          IN  IF Len(parsed.items) = 0 /\ Len(hosts) > 0
              THEN \E curlf \in [SeqToSet(hosts) -> CurlCodes] :
                      RunCurl(curlf, Outcome(err, FALSE))
              ELSE /\ alive' = parsed
                   /\ outcome' = [outcome EXCEPT !["httpx"] = Outcome(err, TRUE)]
                   /\ UNCHANGED <<curl, started>>
    /\ pc' = "probe_done"
    /\ UNCHANGED <<inputVars, fres, availVars, access, whoisVars, amassVars, reconVars, hosts>>

\* a return that leaves the scratch directory behind
RemoveAllSkipped(fs) == fs

\* os.RemoveAll(tmpDir), deferred at subdomain.go:70: the directory and
\* every file in it are gone
RemoveAll(fs) == [f \in FileNames |-> NoFile]

\* probeWithHttpx has returned to performSubdomainEnum
AtEnumReturn == cmd = "recon" /\ pc = "probe_done"

\* step 6 and the return (subdomain.go:108-110), with the deferred
\* os.RemoveAll(tmpDir) (subdomain.go:70)
EnumReturn ==
    /\ AtEnumReturn
    /\ res' = [res EXCEPT !.Subdomains = alive, !.Count = Len(alive.items)]
    /\ files' = RemoveAll(files)
    /\ tmpDir' = (IF \E f \in FileNames : files'[f].exists THEN "exists" ELSE "removed")
    /\ pc' = "returned"
    /\ UNCHANGED <<inputVars, fres, availVars, access, whoisVars, amassVars, task, wg, filterVars, started, outcome>>

(* ------------------------------------------------------------------ *)
(* performWhoisLookup                                                  *)
(* ------------------------------------------------------------------ *)

\* performWhoisLookup is called
AtWhoisLibrary == cmd = "whois" /\ pc = "start"

\* step 1 and the test of step 2 (whois.go:66-78): the library call, which
\* applies its own deadlines, and the decision to fall back
WhoisLibrary ==
    /\ AtWhoisLibrary
    /\ \E r \in WhoisRaws, err \in BOOLEAN :
          /\ wres' = NewWhoisResult(domain)
          /\ raw' = r
          /\ probeRaw' = r
          /\ outcome' = [outcome EXCEPT !["whoislib"] = Outcome(err, TrimSpace(r) # <<>>)]
          /\ IF err \/ TrimSpace(r) = <<>>
             THEN pc' = "tcp" /\ srv' = 1
             ELSE pc' = "parse" /\ srv' = srv
    /\ started' = started \cup {Probe("whoislib", domain)}
    /\ UNCHANGED <<inputVars, fres, availVars, access, amassVars, reconVars, filterVars>>

\* the loop of fallbackWhois moves on from server srv (whois.go:169-175):
\* to the next server, or out of the loop with the empty string
NextServer ==
    IF srv < Len(whoisServers)
    THEN pc' = "tcp" /\ srv' = srv + 1 /\ raw' = raw
    ELSE pc' = "parse" /\ srv' = srv /\ raw' = <<>>

\* fallbackWhois is about to try server srv
AtTcpDial == cmd = "whois" /\ pc = "tcp"

\* tcpWhois up to io.ReadAll (whois.go:179-186): the dial, bounded by its
\* five seconds, fails or connects; the read that follows has no deadline,
\* so the server answers or never does
TcpDial ==
    /\ AtTcpDial
    /\ started' = started \cup {Probe(whoisServers[srv], domain)}
    /\ \/ /\ outcome' = [outcome EXCEPT ![whoisServers[srv]] = Outcome(TRUE, FALSE)]
          /\ probeRaw' = <<>>
          /\ NextServer
       \/ /\ \E st \in {"tcp_reading", "tcp_hung"} : pc' = st
          /\ UNCHANGED <<raw, srv, probeRaw, outcome>>
    /\ UNCHANGED <<inputVars, fres, availVars, access, wres, amassVars, reconVars, filterVars>>

\* io.ReadAll is waiting for a server that answers; there is no deadline
AtTcpRead == cmd = "whois" /\ pc = "tcp_reading"

\* io.ReadAll returns and fallbackWhois tests what tcpWhois gave it
\* (whois.go:186-187, 170-173)
TcpRead ==
    /\ AtTcpRead
    /\ \E r \in WhoisRaws, err \in BOOLEAN :
          /\ outcome' = [outcome EXCEPT
                            ![whoisServers[srv]] = Outcome(err, TrimSpace(r) # <<>>)]
          /\ probeRaw' = r
          /\ IF ~err /\ TrimSpace(r) # <<>>
             THEN pc' = "parse" /\ srv' = srv /\ raw' = r
             ELSE NextServer
    /\ UNCHANGED <<inputVars, fres, availVars, access, wres, amassVars, reconVars, filterVars, started>>

\* the raw response is chosen
AtWhoisParse == cmd = "whois" /\ pc = "parse"

\* steps 3 and 4 (whois.go:80-122)
WhoisParse ==
    /\ AtWhoisParse
    /\ wres' = whoisTail(wres, raw, debug)
    /\ pc' = "returned"
    /\ UNCHANGED <<inputVars, fres, availVars, access, raw, srv, probeRaw, amassVars, reconVars, filterVars,
                   started, outcome>>

(* ------------------------------------------------------------------ *)
(* isValidDomain, called directly                                      *)
(* ------------------------------------------------------------------ *)

AtValidate == cmd = "validate" /\ pc = "start"

\* isValidDomain(domain) is called and returns (subdomain.go:229-244)
Validate ==
    /\ AtValidate
    /\ valid' = isValidDomain(domain)
    /\ pc' = "returned"
    /\ UNCHANGED <<inputVars, fres, avres, rules, cause, deadline, access, whoisVars,
                   amassVars, reconVars, filterVars, started, outcome>>

(* ------------------------------------------------------------------ *)
(* preengagement/availability.go                                       *)
(* ------------------------------------------------------------------ *)

\* the deadline of testWithFping's context, in seconds (availability.go:82)
FpingDeadline == 10

\* the deadline of each hping3 test's context (availability.go:101)
HpingDeadline == 15

\* the deadline of testWithNmap's context (availability.go:128)
NmapDeadline == 10

\* the keys of the tests map of testFirewallWithHping3 (availability.go:93-98)
hpingTests == {"tcp_syn", "tcp_fin", "tcp_ack", "icmp_ping"}

\* "100% packet loss"
loss100 == <<"1", "0", "0", "%", " ", "p", "a", "c", "k", "e", "t", " ", "l", "o", "s", "s">>

\* "0% packet loss"
loss0 == <<"0", "%", " ", "p", "a", "c", "k", "e", "t", " ", "l", "o", "s", "s">>

\* what hping3 may print: its statistics line with no, total or half
\* packet loss, or no statistics at all
HpingOutputs ==
    { <<",", " ">> \o loss0,
      <<",", " ">> \o loss100,
      <<",", " ", "5">> \o loss0,
      <<"x">> }

\* how one run of a binary may end: it is not on the host, or it exits
\* with or without an error, or it is killed at its context's deadline
SubProbeEnds(bin) ==
    IF bin \notin path
    THEN {[err |-> "notfound", out |-> <<>>]}
    ELSE {[err |-> "nil", out |-> o] : o \in HpingOutputs}
         \cup {[err |-> "exit", out |-> <<",", " ">> \o loss100],
               [err |-> "killed", out |-> <<>>]}

\* testWithFping's return value (availability.go:86-87)
testWithFping(err) == err = "nil"

\* the classification of one hping3 test (availability.go:106-118)
hping3Rule(err, out) ==
    IF err # "nil" THEN "blocked"
    ELSE IF Contains(out, loss100) THEN "filtered"
    ELSE IF Contains(out, loss0) THEN "open"
    ELSE "partial"

\* m[k] = v on a Go map
MapSet(m, k, v) == [x \in DOMAIN m \cup {k} |-> IF x = k THEN v ELSE m[x]]

\* what testWithNmap may return (availability.go:124-167): the scanner
\* cannot be created without the binary; the scan is cut at its deadline,
\* fails, finds the host down, or finds it up with the state of a port
NmapResults ==
    IF "nmap" \notin path
    THEN {MapSet(<<>>, "error", "scanner create: nmap binary was not found")}
    ELSE { MapSet(<<>>, "error", "nmap scan timed out"),
           MapSet(<<>>, "error", "host down"),
           MapSet(MapSet(MapSet(<<>>, "available", "true"), "host_state", "up"),
                  "port_80", "open") }

AtAvailFping == cmd = "avail" /\ pc = "start"

\* performAvailabilityTest up to the return of testWithFping
\* (availability.go:46-57, 81-88)
AvailFping ==
    /\ AtAvailFping
    /\ deadline' = MapSet(deadline, "fping", FpingDeadline)
    /\ \E e \in SubProbeEnds("fping") :
          /\ cause' = MapSet(cause, "fping", [e EXCEPT !.out = <<>>])
          /\ avres' = IF testWithFping(e.err)
                       THEN [NewAvailabilityResult(domain) EXCEPT
                                !.IsAvailable = TRUE, !.Methods = <<"fping">>]
                       ELSE NewAvailabilityResult(domain)
    /\ pc' = "hping"
    /\ UNCHANGED <<inputVars, fres, valid, rules, access, whoisVars, amassVars, reconVars,
                   filterVars, started, outcome>>

\* the loop leaving at the first test that is blocked
hpingLoopLeavesOnBlocked(rs) == DOMAIN rs = hpingTests \/ \E t \in DOMAIN rs : rs[t] = "blocked"

\* the range loop of testFirewallWithHping3 has visited every key
hpingLoopDone(rs) == DOMAIN rs = hpingTests

AtAvailHping == cmd = "avail" /\ pc = "hping"

\* one iteration of the loop of testFirewallWithHping3 (availability.go:
\* 100-119), over the keys in the order the map yields them; after the
\* last one the function returns and its caller records the rules
\* (availability.go:59-63)
AvailHping ==
    /\ AtAvailHping
    /\ \E t \in hpingTests \ DOMAIN rules, e \in SubProbeEnds("hping3") :
          /\ deadline' = MapSet(deadline, t, HpingDeadline)
          /\ cause' = MapSet(cause, t, e)
          /\ rules' = MapSet(rules, t, hping3Rule(e.err, e.out))
    /\ IF hpingLoopDone(rules')
       THEN /\ avres' = [avres EXCEPT
                            !.FirewallRules = rules',
                            !.Methods = IF DOMAIN rules' # {}
                                        THEN Append(@, "hping3") ELSE @]
            /\ pc' = "nmap"
       ELSE UNCHANGED <<avres, pc>>
    /\ UNCHANGED <<inputVars, fres, valid, access, whoisVars, amassVars, reconVars,
                   filterVars, started, outcome>>

AtAvailNmap == cmd = "avail" /\ pc = "nmap"

\* performAvailabilityTest from testWithNmap on (availability.go:65-78)
AvailNmap ==
    /\ AtAvailNmap
    /\ deadline' = MapSet(deadline, "nmap", NmapDeadline)
    /\ \E n \in NmapResults :
          LET up == "available" \in DOMAIN n /\ n["available"] = "true"
              ks == DOMAIN n \ {"available"}
          IN  avres' = [avres EXCEPT
                  !.IsAvailable = IF up THEN TRUE ELSE @,
                  !.Methods = IF up THEN Append(@, "nmap") ELSE @,
                  !.FirewallRules =
                      [k \in DOMAIN @ \cup ks |-> IF k \in ks THEN n[k] ELSE @[k]]]
    /\ pc' = "returned"
    /\ UNCHANGED <<inputVars, fres, valid, rules, cause, access, whoisVars, amassVars,
                   reconVars, filterVars, started, outcome>>

(* ------------------------------------------------------------------ *)
(* performPathBrute                                                    *)
(* ------------------------------------------------------------------ *)

\* "error: ffuf not installed or not in PATH"
errNoFfuf ==
    << "e", "r", "r", "o", "r", ":", " ", "f", "f", "u", "f", " ", "n", "o",
       "t", " ", "i", "n", "s", "t", "a", "l", "l", "e", "d", " ", "o", "r",
       " ", "n", "o", "t", " ", "i", "n", " ", "P", "A", "T", "H" >>

\* pathItem{Name: p}
pathItem(p) == [Name |-> p]

\* the scanner loop of parseFfufCSVLines
RECURSIVE ffufLoop(_, _)
ffufLoop(ls, hits) ==
    IF ls = <<>> THEN hits
    ELSE LET line  == TrimSpace(Head(ls))
             parts == Split(line, ",")
         IN  ffufLoop(Tail(ls),
                 IF line = <<>> \/ HasPrefix(line, <<"i", "n", "p", "u", "t">>) THEN hits
                 ELSE IF Len(parts) > 0 /\ ~Contains(parts[1], <<"e", "r", "r", "o", "r", ":">>)
                      THEN AppendSlice(hits, parts[1])
                      ELSE hits)

\* parseFfufCSVLines(csv)
parseFfufCSVLines(csv) == ffufLoop(ScanLines(csv), NilSlice)

\* make([]pathItem, len(paths)) filled from paths: never the nil slice
pathItems(paths) ==
    [nil |-> FALSE, items |-> [i \in 1..Len(paths.items) |-> pathItem(paths.items[i])]]

\* performPathBrute is called
AtPathBrute == cmd = "fuff" /\ pc = "start"

\* performPathBrute up to the start of ffuf: the LookPath check, then
\* cmd.Output, which has no deadline
PathBrute ==
    /\ AtPathBrute
    /\ \/ /\ "ffuf" \notin path
          /\ fres' = [NewFuffResult(domain) EXCEPT
                         !.Subdomains = AppendSlice(NilSlice, pathItem(errNoFfuf))]
          /\ pc' = "returned"
       \/ /\ "ffuf" \in path
          /\ fres' = NewFuffResult(domain)
          /\ \E st \in {"ffuf_running", "ffuf_hung"} : pc' = st
    /\ UNCHANGED <<inputVars, availVars, access, whoisVars, amassVars, reconVars, filterVars,
                   started, outcome>>

\* cmd.Output is waiting for an ffuf that ends
AtFfufExit == pc = "ffuf_running"

\* performPathBrute from the return of cmd.Output on
FfufExit ==
    /\ AtFfufExit
    /\ \E out \in FfufOutputs, err \in BOOLEAN :
          fres' = IF err
                  THEN [fres EXCEPT !.Subdomains = EmptySlice]
                  ELSE LET items == pathItems(parseFfufCSVLines(out))
                       IN  [fres EXCEPT !.Subdomains = items, !.Count = Len(items.items)]
    /\ pc' = "returned"
    /\ UNCHANGED <<inputVars, availVars, access, whoisVars, amassVars, reconVars, filterVars,
                   started, outcome>>

(* ------------------------------------------------------------------ *)
(* specification                                                       *)
(* ------------------------------------------------------------------ *)

Next ==
    \/ AmassLaunch
    \/ AmassExit
    \/ AmassReturn
    \/ MergeCall
    \/ EnumSetup
    \/ \E t \in Tasks : TaskStart(t)
    \/ \E t \in Tasks : TaskFinish(t)
    \/ EnumMerge
    \/ ProbeStart
    \/ HttpxExit
    \/ EnumReturn
    \/ WhoisLibrary
    \/ TcpDial
    \/ TcpRead
    \/ WhoisParse
    \/ Validate
    \/ AvailFping
    \/ AvailHping
    \/ AvailNmap
    \/ PathBrute
    \/ FfufExit

Spec == Init /\ [][Next]_vars

\* some step of Next can be taken: the position of one of its actions is
\* reached (each action's inputs are drawn from nonempty sets)
CanStep ==
    \/ AtAmassLaunch \/ AtAmassExit \/ AtAmassReturn
    \/ AtMergeCall
    \/ AtEnumSetup
    \/ \E t \in Tasks : AtTaskStart(t) \/ AtTaskFinish(t)
    \/ AtEnumMerge
    \/ AtProbe \/ AtHttpxExit
    \/ AtEnumReturn
    \/ AtWhoisLibrary \/ AtTcpDial \/ AtTcpRead \/ AtWhoisParse
    \/ AtValidate
    \/ AtAvailFping \/ AtAvailHping \/ AtAvailNmap
    \/ AtPathBrute \/ AtFfufExit


(* ------------------------------------------------------------------ *)
(* properties                                                          *)
(* ------------------------------------------------------------------ *)

Names(r) == {r.Subdomains[i].Name : i \in 1..Len(r.Subdomains)}

\* the names one output reports for the target, taken on its own
NamesReported(out) ==
    Names(parseAmassOut(out, domain, "any", NewAmassResult(domain), {}, FALSE).result)

\* the sources whose outputs reported this name
ReportedBy(name) ==
    {mergeLog[i].source : i \in {j \in 1..Len(mergeLog) : name \in NamesReported(mergeLog[j].output)}}

\* C1: whatever amass prints, and however often parseAmassOut is applied
\* to one result with one seen set (the indicator fallback included), no
\* two elements of result.Subdomains have the same Name.
C1_UniqueNames ==
    \A i, j \in 1..Len(result.Subdomains) :
        i # j => result.Subdomains[i].Name # result.Subdomains[j].Name

\* amass printed "a.e.c" twice, once with a leading space, and the
\* returned result holds it once
C1_Witness ==
    /\ cmd = "amass" /\ pc = "returned" /\ Len(mergeLog) = 1
    /\ mergeLog[1].output = LinesText(<< <<"a", ".", "e", ".", "c">>, <<" ", "a", ".", "e", ".", "c">> >>)
    /\ Len(result.Subdomains) = 1

\* C2: an entity reported by several sources is held once and its
\* provenance set is the set of the sources that reported it: after A
\* reported api and B reported www and api, api has sources {A, B} and www
\* has {B}.
C2_ProvenanceMerged ==
    cmd = "merge" =>
        \A i \in 1..Len(result.Subdomains) :
            SeqToSet(result.Subdomains[i].Sources) = ReportedBy(result.Subdomains[i].Name)


\* the fallback chains [A, B] of the code: the WHOIS library then the TCP
\* servers, the TCP servers in list order, httpx then the per-host curl
ChainPairs ==
    {<<"whoislib", whoisServers[1]>>, <<"httpx", "curl">>}
    \cup {<<whoisServers[i], whoisServers[i + 1]>> : i \in 1..(Len(whoisServers) - 1)}

Succeeded(p) == outcome[p].done /\ ~outcome[p].err /\ outcome[p].nonempty

Failed(p) == outcome[p].done /\ (outcome[p].err \/ ~outcome[p].nonempty)

Invoked(p) == outcome[p].done \/ \E x \in started : x.probe = p

\* the chain has handed its result on
ChainOver == pc \in {"parse", "returned", "probe_done"}

\* C3: in every fallback chain [A, B], B is never invoked when A returned
\* a nonempty result, and when A failed or returned nothing B is invoked
\* and its result is the one used.
C3_FallbackPrecedence ==
    \A pr \in ChainPairs :
        LET A == pr[1]
            B == pr[2]
        IN  /\ Succeeded(A) => ~Invoked(B)
            /\ (Failed(A) /\ ChainOver) =>
                  /\ Invoked(B)
                  /\ B = "curl" => alive = probeWithCurl(hosts, codes, curl)
                  /\ (B # "curl" /\ Succeeded(B)) => raw = probeRaw

\* C4: no probe is started with a target that fails Target validation.
C4_TargetValidatedBeforeProbe ==
    \A x \in started : x.probe \in (Tasks \cup {"amass", "whoislib"} \cup SeqToSet(whoisServers))
                          => isValidDomain(x.target)

\* C5: a missing, hanging or failing discovery tool never aborts
\* performSubdomainEnum: when it has returned (other than on the scratch
\* directory error) every one of the three probes has been run.
C5_ProbeAbsenceNeverAborts ==
    (cmd = "recon" /\ pc = "returned" /\ res.Subdomains.items # <<errTempDir>>)
        => \A t \in Tasks : Probe(t, domain) \in started

\* C6: under every interleaving of the three goroutines, the merge (and
\* everything after it) runs only when all three have terminated, so that
\* the main goroutine is the only one running.
C6_MergeAfterAllTasks ==
    (cmd = "recon" /\ (pc \in {"probe", "httpx_running", "httpx_hung", "probe_done"}
                       \/ files["final.txt"].exists))
        => \A t \in Tasks : task[t] = "done"

\* the merge has run over the files of two tools that both found a host
C6_Witness ==
    /\ cmd = "recon" /\ pc = "probe"
    /\ files["harvester.txt"].text # <<>> /\ files["crtsh.txt"].text # <<>>
    /\ files["final.txt"].exists /\ Len(hosts) = 2

Invocations == {"amass", "recon", "whois"}

\* C7: every external probe is bounded by a timeout, so an invocation
\* never waits for ever: until it has returned it can always take a step,
\* whatever the tools and servers do.
C7_EveryInvocationReturns ==
    (cmd \in Invocations /\ pc # "returned") => CanStep

\* C8: the liveness filter returns an empty, non-nil slice both when it
\* was given no candidates and when no candidate survived.
C8_EmptyResultIsNonNil ==
    (pc = "probe_done" /\ Len(alive.items) = 0) => alive = EmptySlice

\* C9: with httpx unavailable, the liveness filter returns exactly the
\* candidates that probeWithCurl keeps when each is probed on its own.
C9_CurlFallbackEquivalent ==
    (pc = "probe_done" /\ "httpx" \notin path) =>
        SeqToSet(alive.items) =
            UNION {SeqToSet(probeWithCurl(<<hosts[i]>>, codes, curl).items) : i \in 1..Len(hosts)}

\* without httpx, of several candidates some survived and some did not,
\* an invalid one among them
C9_Witness ==
    /\ pc = "probe_done" /\ "httpx" \notin path
    /\ Len(hosts) >= 2
    /\ Len(alive.items) > 0 /\ Len(alive.items) < Len(hosts)
    /\ \E i \in 1..Len(hosts) : ~isValidDomain(hosts[i])

\* what the amass run of this invocation yielded
AmassYield == UNION {NamesReported(mergeLog[i].output) : i \in 1..Len(mergeLog)}

\* the indicator set for the target, labelled
IndicatorSet ==
    [i \in 1..Len(indicators) |->
        SubdomainInfo(indicators[i] \o <<".">> \o domain, "indicator-fallback")]

\* C10: performDebugAmass adds indicator entities only when amass yielded
\* nothing, each tagged exactly ["indicator-fallback"]; no result mixes
\* amass entities and indicator entities, and a result whose amass chain
\* was empty holds exactly the fixed prefixes joined to the target.
C10_IndicatorsOnlyWhenEmpty ==
    cmd = "amass" =>
        /\ \A i \in 1..Len(result.Subdomains) :
              LET e == result.Subdomains[i]
              IN  IF AmassYield = {}
                  THEN e.Sources = <<"indicator-fallback">>
                  ELSE e.Sources = <<"amass">>
        /\ pc = "returned" =>
              IF AmassYield = {}
              THEN result.Subdomains = IndicatorSet
              ELSE Names(result) = AmassYield

\* amass printed something, none of it a subdomain, and the returned
\* result is the twelve indicators
C10_Witness ==
    /\ cmd = "amass" /\ pc = "returned"
    /\ Len(mergeLog) = 1 /\ mergeLog[1].output # <<>>
    /\ AmassYield = {}
    /\ Len(result.Subdomains) = Len(indicators)
    /\ result.Sources = [s \in {"indicator-fallback"} |-> Len(indicators)]

\* C11: an amass run that returns an error (error exit or deadline)
\* contributes no entity to the result, its output is parsed at most once
\* (no retry), and the chain advances to the indicator fallback.
C11_FailedProbeTreatedAsEmpty ==
    (cmd = "amass" /\ outcome["amass"].done /\ outcome["amass"].err) =>
        /\ \A i \in 1..Len(result.Subdomains) : result.Subdomains[i].Sources # <<"amass">>
        /\ Len(mergeLog) <= 1
        /\ pc = "returned" => result.Subdomains = IndicatorSet

\* C12: the status of a performDebugAmass invocation only moves forward:
\* it is "running" from the creation of the result until the return,
\* "completed" on every return path (also after a failed or killed amass),
\* and once it is "completed" neither it nor the result changes again.
C12_StatusMovesForward ==
    /\ [](cmd = "amass" =>
             result.Status = (IF pc = "returned" THEN "completed" ELSE "running"))
    /\ [][(cmd = "amass" /\ result.Status = "completed") => result' = result]_vars

\* the invocation returned "completed" after amass was killed at its
\* deadline having printed nothing
C12_Witness ==
    /\ cmd = "amass" /\ pc = "returned" /\ result.Status = "completed"
    /\ outcome["amass"].err /\ ~outcome["amass"].nonempty
    /\ "amass" \in path

\* C13: with debug off no field of the debug trace is populated: RawOutput
\* and ParseErrors stay empty, TotalLines and ParsedLines stay 0, whatever
\* amass prints.
C13_DebugOffLeavesTraceEmpty ==
    (cmd = "amass" /\ ~debug) =>
        result.Debug = [RawOutput |-> <<>>, ParseErrors |-> <<>>,
                        TotalLines |-> 0, ParsedLines |-> 0]

\* two accesses by different goroutines to one sink, one of them a write
Conflict(a, b) ==
    /\ a.task # b.task
    /\ a.sink = b.sink
    /\ a.mode = "w" \/ b.mode = "w"

C15_ScratchRemovedOnReturn ==
    (cmd = "recon" /\ pc = "returned") =>
        /\ tmpDir # "exists"
        /\ \A f \in FileNames : ~files[f].exists
        /\ (\E x \in started : x.probe \in Tasks) => tmpDir = "removed"

\* the invocation returned after its tools found a host that the filter
\* then dropped, and the scratch directory is gone
C15_Witness ==
    /\ cmd = "recon" /\ pc = "returned" /\ tmpDir = "removed"
    /\ Len(hosts) > 0 /\ hosts[1] # <<>> /\ Len(alive.items) = 0
    /\ \A t \in Tasks : task[t] = "done"

\* the white space of Unicode that fits the modelled alphabet
Whitespace == {" ", "\t", "\n", "\r"}

\* a label between two dots, or before the first or after the last, is empty
HasEmptyLabel(d) ==
    \/ d = <<>>
    \/ d[1] = "." \/ d[Len(d)] = "."
    \/ \E i \in 1..(Len(d) - 1) : d[i] = "." /\ d[i + 1] = "."

\* the shapes Target validation has to reject
Malformed(d) ==
    \/ d = <<>>
    \/ HasEmptyLabel(d)
    \/ d[1] = "-" \/ d[Len(d)] = "-"
    \/ \E i \in 1..Len(d) : d[i] \in Whitespace
    \/ ~(\E i \in 1..Len(d) : d[i] = ".")
    \/ Len(d) > MaxDomainLength

\* C16: isValidDomain rejects the empty string, targets with an empty
\* label, with a leading or trailing dot or hyphen, with any white space,
\* without a dot, and targets longer than 253 characters.
C16_ValidationRejectsMalformed ==
    (cmd = "validate" /\ pc = "returned" /\ Malformed(domain)) => valid = FALSE

\* the result performDebugAmass hands to runAmassOnce
LaunchedAmassResult ==
    [NewAmassResult(domain) EXCEPT !.Mode = IF ~passive THEN "active" ELSE @]

\* C17: for the hping3 sub-probes, fping and amass, the value recorded
\* when the binary is missing from the host differs from the value
\* recorded when the binary ran and returned an error.
C17_AbsentDistinctFromFailed ==
    /\ \A p \in DOMAIN cause :
          cause[p].err = "notfound" =>
              IF p = "fping"
              THEN testWithFping("notfound") # testWithFping("exit")
              ELSE \A o \in HpingOutputs : rules[p] # hping3Rule("exit", o)
    /\ (cmd = "amass" /\ pc = "amass_done" /\ "amass" \notin path) =>
          result # runAmassTail(<<>>, "exit", LaunchedAmassResult, {}, domain,
                                passive, debug).result

\* the classifications of a firewall test
Classes == {"open", "filtered", "blocked", "partial"}

\* C19: testFirewallWithHping3 gives each of its four sub-probes exactly
\* one classification of {open, filtered, blocked, partial}; a sub-probe
\* that returned an error (launch failure, error exit, deadline) is
\* "blocked"; and every sub-probe runs and is classified by its own
\* outcome alone, whatever happened to the others.
C19_HpingClassification ==
    cmd = "avail" =>
        /\ DOMAIN rules \subseteq hpingTests
        /\ \A t \in DOMAIN rules :
              /\ rules[t] \in Classes
              /\ cause[t].err # "nil" => rules[t] = "blocked"
              /\ rules[t] = hping3Rule(cause[t].err, cause[t].out)
        /\ pc \in {"nmap", "returned"} => DOMAIN rules = hpingTests

\* one sub-probe was killed at its deadline, another failed, and the other
\* two were still run and classified open and filtered
C19_Witness ==
    /\ cmd = "avail" /\ pc = "nmap"
    /\ cause["tcp_syn"].err = "killed" /\ rules["tcp_syn"] = "blocked"
    /\ cause["tcp_fin"].err = "exit" /\ rules["tcp_fin"] = "blocked"
    /\ rules["tcp_ack"] = "open" /\ rules["icmp_ping"] = "filtered"

\* C20: every sub-probe of performAvailabilityTest runs under a deadline
\* of at most the outer timeout T, for every T.
C20_SubDeadlinesWithinOuter ==
    cmd = "avail" => \A p \in DOMAIN deadline : deadline[p] <= timeout

\* the (key, value) pairs of the lines the normalizer looks at: trimmed,
\* holding a colon, with a value
WhoisPairs(text) ==
    LET ls   == Split(text, "\n")
        kept == SelectSeq([i \in 1..Len(ls) |-> TrimSpace(ls[i])],
                          LAMBDA l : l # <<>> /\ Contains(l, <<":">>)
                                     /\ TrimSpace(SplitColon(l)[2]) # <<>>)
    IN  [i \in 1..Len(kept) |->
            [key   |-> TrimSpace(ToLower(SplitColon(kept[i])[1])),
             value |-> TrimSpace(SplitColon(kept[i])[2])]]

\* the field a key belongs to, by the key patterns of the normalizer
FieldOf(key) ==
    CASE Contains(key, <<"r", "e", "g", "i", "s", "t", "r", "a", "r">>) -> "Registrar"
      [] anyOf(key, {<<"c", "r", "e", "a", "t", "e", "d">>, <<"c", "r", "e", "a", "t", "i", "o", "n", " ", "d", "a", "t", "e">>, <<"r", "e", "g", "i", "s", "t", "e", "r", "e", "d", " ", "o", "n">>}) -> "CreationDate"
      [] anyOf(key, {<<"e", "x", "p", "i", "r", "e", "s">>, <<"e", "x", "p", "i", "r", "a", "t", "i", "o", "n">>, <<"e", "x", "p", "i", "r", "y", " ", "d", "a", "t", "e">>, <<"r", "e", "g", "i", "s", "t", "r", "y", " ", "e", "x", "p", "i", "r", "y">>}) -> "ExpirationDate"
      [] anyOf(key, {<<"u", "p", "d", "a", "t", "e", "d">>, <<"m", "o", "d", "i", "f", "i", "e", "d">>, <<"c", "h", "a", "n", "g", "e", "d">>}) -> "UpdatedDate"
      [] anyOf(key, {<<"n", "a", "m", "e", " ", "s", "e", "r", "v", "e", "r">>, <<"n", "s", "e", "r", "v", "e", "r">>}) -> "NameServers"
      [] HasPrefix(key, <<"s", "t", "a", "t", "u", "s">>) -> "Status"
      [] anyOf(key, {<<"d", "n", "s", "s", "e", "c">>, <<"d", "s", " ", "d", "a", "t", "a">>}) -> "DNSSEC"
      [] OTHER -> "none"

\* the values of the lines of a field, in line order
ValuesOf(text, field) ==
    LET ps == SelectSeq(WhoisPairs(text), LAMBDA pr : FieldOf(pr.key) = field)
    IN  [i \in 1..Len(ps) |-> ps[i].value]

\* the value of the first line of a field, or the empty string
FirstOf(text, field) ==
    IF ValuesOf(text, field) = <<>> THEN <<>> ELSE ValuesOf(text, field)[1]

NoDuplicates(q) == \A i, j \in 1..Len(q) : i # j => q[i] # q[j]

\* C18: in the parsed WHOIS result every scalar field (registrar, the
\* three dates, DNSSEC) holds the value of the first line classified to
\* it, later lines never change it, and the list fields (name servers,
\* status) hold each value reported for them exactly once.
C18_FirstValueWins ==
    (cmd = "whois" /\ pc = "returned" /\ TrimSpace(raw) # <<>>) =>
        /\ wres.Registrar = FirstOf(raw, "Registrar")
        /\ wres.CreationDate = parseDate(FirstOf(raw, "CreationDate"))
        /\ wres.ExpirationDate = parseDate(FirstOf(raw, "ExpirationDate"))
        /\ wres.UpdatedDate = parseDate(FirstOf(raw, "UpdatedDate"))
        /\ wres.DNSSEC = FirstOf(raw, "DNSSEC")
        /\ NoDuplicates(wres.NameServers)
        /\ SeqToSet(wres.NameServers) = SeqToSet(ValuesOf(raw, "NameServers"))
        /\ NoDuplicates(wres.Status)
        /\ SeqToSet(wres.Status) = SeqToSet(ValuesOf(raw, "Status"))

\* the names one line of output offers to the merge, in the order the
\* parser meets them
LineNames(rawLine, d) ==
    LET line    == TrimSpace(rawLine)
        toks    == Fields(line)
        trimmed == [i \in 1..Len(toks) |-> Trim(toks[i], {"[", "]", "(", ")", "{", "}", "<", ">"})]
        IsName(n) == HasSuffix(n, <<".">> \o d) /\ n # d
    IN  IF line = <<>> \/ Contains(line, Finished) THEN <<>>
        ELSE IF IsName(line) THEN <<line>>
        ELSE SelectSeq(trimmed, IsName)

RECURSIVE Flatten(_)
Flatten(qs) == IF qs = <<>> THEN <<>> ELSE Head(qs) \o Flatten(Tail(qs))

\* the names one output offers, line after line
OutputNames(out, d) ==
    LET ls == ScanLines(out) IN Flatten([i \in 1..Len(ls) |-> LineNames(ls[i], d)])

\* the names offered by all the outputs merged so far, in merge order
MergedNames == Flatten([i \in 1..Len(mergeLog) |-> OutputNames(mergeLog[i].output, domain)])

\* the first occurrence of each element of q, in the order of q
FirstOccurrences(q) ==
    LET keep[i \in 0..Len(q)] ==
            IF i = 0 THEN <<>>
            ELSE IF \E j \in 1..(i - 1) : q[j] = q[i] THEN keep[i - 1]
            ELSE Append(keep[i - 1], q[i])
    IN  keep[Len(q)]

\* the names of the entities the merge put into the result, in result order
ParsedNames ==
    LET es == SelectSeq(result.Subdomains, LAMBDA e : e.Sources # <<"indicator-fallback">>)
    IN  [i \in 1..Len(es) |-> es[i].Name]

\* the lines the three tools left behind, in the order the merge command
\* names their files
ToolLinesInMergeOrder ==
    FileLines(files["harvester.txt"].text) \o FileLines(files["reconng.txt"].text)
        \o FileLines(files["crtsh.txt"].text)

\* the amass merge keeps first-seen order
AmassMergeFirstSeen ==
    cmd \in {"amass", "merge"} => ParsedNames = FirstOccurrences(MergedNames)

\* the multi-source merge keeps first-seen order
EnumMergeFirstSeen ==
    (cmd = "recon" /\ files["final.txt"].exists) =>
        FileLines(files["final.txt"].text) = FirstOccurrences(ToolLinesInMergeOrder)

\* C21: the entities of the aggregated result are in first-seen order: the
\* result's sequence is the sequence of first occurrences of each name in
\* merge order, in the amass merge and in the merge of the three tools'
\* files by performSubdomainEnum.
C21_FirstSeenOrder == AmassMergeFirstSeen /\ EnumMergeFirstSeen

\* C22: the identity of an entity is its lower-cased hostname: two
\* hostnames that differ only in letter case, from one source or from
\* several, are one entity and the result holds it once.
C22_LowerCasedIdentity ==
    cmd \in {"amass", "merge"} =>
        \A i, j \in 1..Len(result.Subdomains) :
            i # j => ToLower(result.Subdomains[i].Name) # ToLower(result.Subdomains[j].Name)

\* probeWithHttpx has returned its slice
ProbeReturned == cmd \in {"recon", "filter"} /\ pc = "probe_done"

\* the slice came from the per-host fallback
ViaCurl == outcome["curl"].done

\* C23: every hostname the liveness filter returns is one of the
\* candidates it was given, on the batch path and on the per-host
\* fallback path, whatever the batch tool printed.
C23_AliveAmongCandidates ==
    ProbeReturned => SeqToSet(alive.items) \subseteq SeqToSet(hosts)

\* the same, on the per-host fallback path alone
CurlAliveAmongCandidates ==
    (ProbeReturned /\ ViaCurl) => SeqToSet(alive.items) \subseteq SeqToSet(hosts)

\* the strings the three functions build from an error
ErrorMessages == {errNoHarvester, errNoReconNg, errTempDir, errNoFfuf}

\* the subdomain enumeration returned a consistent result
EnumResultConsistent ==
    (cmd = "recon" /\ pc = "returned") =>
        /\ res.Count = Len(res.Subdomains.items)
        /\ \A i \in 1..Len(res.Subdomains.items) : res.Subdomains.items[i] \notin ErrorMessages

\* the amass enumeration returned a consistent result
AmassResultConsistent ==
    (cmd = "amass" /\ pc = "returned") =>
        /\ result.Count = Len(result.Subdomains)
        /\ \A i \in 1..Len(result.Subdomains) : result.Subdomains[i].Name \notin ErrorMessages

\* the path brute-force returned a consistent result
FuffResultConsistent ==
    (cmd = "fuff" /\ pc = "returned") =>
        /\ fres.Count = Len(fres.Subdomains.items)
        /\ \A i \in 1..Len(fres.Subdomains.items) : fres.Subdomains.items[i].Name \notin ErrorMessages

\* C24: in every result returned by performSubdomainEnum, performDebugAmass
\* and performPathBrute, on every return path (a missing tool and a failed
\* scratch directory included), Count is the number of elements of
\* Subdomains and no element of Subdomains is an error message.
C24_CountMatchesSubdomains ==
    EnumResultConsistent /\ AmassResultConsistent /\ FuffResultConsistent

=============================================================================
